---- MODULE Spec2Model ----
(***************************************************************************)
(* Model of modules/utils/info_util.py: the EventInfo wrapper around a     *)
(* Telegram update and the three posting routines built on it              *)
(* (send_post_to_admins, send_post_to_channel, send_post_to_channel_group) *)
(* together with get_user_sign.                                            *)
(*                                                                         *)
(* Python values are encoded as follows.  An optional value is a tuple:    *)
(* None is <<>> and a present value v is <<v>>.  A str is a sequence of    *)
(* one-character strings, so that "@" + username and split("\n") are       *)
(* computed, not assumed.  The return of a routine is the record `last`:   *)
(* ret is "True", "False", "None" (a routine without return value that     *)
(* ran to its end) or "raise", and exc names the exception raised.         *)
(***************************************************************************)
EXTENDS Integers, Sequences, FiniteSets, TLC

VARIABLES
    comments,         \* config_map['meme']['comments']
    names,            \* the text read_md("anonym_names") returns
    bot_data,         \* ctx.bot_data: the correlation dictionary
    pending_posts,    \* the rows PendingPost.create has written
    published_posts,  \* the rows PublishedPost.create has written
    sent,             \* the messages the bot has put into the remote chats
    echoed,           \* the forward sources send_post_to_channel_group was run for
    signed,           \* get_user_sign called on its own: its inputs and its result
    last,             \* the last routine run: its arguments and its outcome
    pc,               \* per running send_post_to_channel_group: the line it is at
    loc,              \* per running send_post_to_channel_group: its locals
    info,             \* the EventInfo the last factory call built
    acc               \* what the accessors of `info` return

vars == <<comments, names, bot_data, pending_posts, published_posts, sent,
          echoed, signed, last, pc, loc, info, acc>>

----------------------------------------------------------------------------
(* Bounds of the model *)

\* the bot sends at most this many messages in a run
MaxSent == 3
\* the anonym_names text has at most this many characters
MaxLen == 3
\* at most this many send_post_to_channel_group invocations run concurrently
MaxProcs == 2

----------------------------------------------------------------------------
(* Python values *)

None == <<>>
Some(v) == <<v>>
Opt(S) == {None} \cup {Some(v) : v \in S}

\* bool(x) of an optional str or list: None and the empty value are falsy
Truthy(x) == x # None /\ Len(x[1]) > 0

Max(S) == CHOOSE m \in S : \A n \in S : n <= m

\* all sequences over S of length 0..n
SeqsUpTo(S, n) == UNION {[1..k -> S] : k \in 0..n}

----------------------------------------------------------------------------
(* Configuration *)

group_id == -100
channel_id == -200
channel_group_id == -300
\* a chat that is none of the configured ones
ForeignChats == {-400}

Users == {1, 2}

----------------------------------------------------------------------------
(* telegram objects, as far as EventInfo reads them *)

Chars == {"a", "b"}
Strs == SeqsUpTo(Chars, 1)

PRIVATE == "private"

TgUser(id, username) == [id |-> id, username |-> username]

\* a telegram.Message; python-telegram-bot gives photo the default []
Msg(chat_id, chat_type, message_id, from_user, text, sticker, poll) ==
    [message_id |-> message_id, chat_id |-> chat_id, chat_type |-> chat_type,
     from_user |-> from_user, text |-> text, photo |-> Some(<<>>), voice |-> None,
     audio |-> None, video |-> None, animation |-> None, sticker |-> sticker,
     poll |-> poll, reply_markup |-> None, reply_to_message |-> None,
     forward_from_chat |-> None, forward_from_message_id |-> None]

Poll1 == <<"q", "x", "y">>

FromUsers == {TgUser(u, n) : u \in Users, n \in {None, Some(<<"a">>)}}

\* the messages an update can carry
Messages ==
    {Msg(c, t, 1, f, x, s, q) :
        c \in {1, group_id}, t \in {PRIVATE, "group"}, f \in {TgUser(1, Some(<<"a">>))},
        x \in Opt(Strs), s \in Opt({<<"s">>}), q \in Opt({Poll1})}

Queries == {[id |-> 7, data |-> <<"a">>, from_user |-> f, message |-> m] :
                f \in FromUsers, m \in Opt(Messages)}

Updates == [message : Opt(Messages), callback_query : {None}]
           \cup [message : {None}, callback_query : Opt(Queries)]

----------------------------------------------------------------------------
(* EventInfo: constructor, accessors, factories *)

\* what a property or a call gives back: a value, or an exception
Ret(v) == [exc |-> "", value |-> v]
Raise(e) == [exc |-> e, value |-> None]

EventInfo(update, message, query) ==
    [update |-> update, message |-> message, query |-> query]

\* a or b or ... : the first truthy operand, else the last one
RECURSIVE PyOr(_)
PyOr(vals) ==
    IF Len(vals) = 1 \/ Truthy(Head(vals)) THEN Head(vals) ELSE PyOr(Tail(vals))

\* chat_id without its test for a missing message
chat_id_unguarded(self) ==
    IF self.message = None THEN Raise("AttributeError")
    ELSE Ret(Some(self.message[1].chat_id))

chat_id(self) ==
    IF self.message = None THEN Ret(None)
    ELSE Ret(Some(self.message[1].chat_id))

chat_type(self) ==
    IF self.message = None THEN Ret(None)
    ELSE Ret(Some(self.message[1].chat_type))

is_private_chat(self) ==
    LET t == chat_type(self) IN
    IF t.exc # "" THEN t
    ELSE IF t.value = None THEN Ret(None)
    ELSE Ret(Some(t.value[1] = PRIVATE))

text(self) ==
    IF self.message = None THEN Ret(None)
    ELSE Ret(self.message[1].text)

message_id(self) ==
    IF self.message = None THEN Ret(None)
    ELSE Ret(Some(self.message[1].message_id))

is_valid_message_type(self) ==
    IF self.message = None THEN Ret(None)
    ELSE LET m == self.message[1] IN
         Ret(PyOr(<<m.text, m.photo, m.voice, m.audio,
                    m.video, m.animation, m.sticker, m.poll>>))

reply_markup(self) ==
    IF self.message = None THEN Ret(None)
    ELSE Ret(self.message[1].reply_markup)

user_id(self) ==
    IF self.query # None THEN Ret(Some(self.query[1].from_user.id))
    ELSE IF self.message # None THEN Ret(Some(self.message[1].from_user.id))
    ELSE Ret(None)

user_username(self) ==
    IF self.query # None THEN Ret(self.query[1].from_user.username)
    ELSE IF self.message # None THEN Ret(self.message[1].from_user.username)
    ELSE Ret(None)

query_id(self) ==
    IF self.query = None THEN Ret(None) ELSE Ret(Some(self.query[1].id))

query_data(self) ==
    IF self.query = None THEN Ret(None) ELSE Ret(Some(self.query[1].data))

\* the message-derived accessors
MessageAccessors ==
    {"chat_id", "chat_type", "is_private_chat", "text", "message_id",
     "is_valid_message_type", "reply_markup"}

\* every accessor of an EventInfo, read once
Accessors(self) ==
    [chat_id |-> chat_id(self), chat_type |-> chat_type(self),
     is_private_chat |-> is_private_chat(self), text |-> text(self),
     message_id |-> message_id(self),
     is_valid_message_type |-> is_valid_message_type(self),
     reply_markup |-> reply_markup(self), user_id |-> user_id(self),
     user_username |-> user_username(self), query_id |-> query_id(self),
     query_data |-> query_data(self)]

from_message(update) ==
    Ret(Some(EventInfo(Some(update), update.message, None)))

from_callback(update) ==
    IF update.callback_query = None THEN Raise("AttributeError")
    ELSE Ret(Some(EventInfo(Some(update), update.callback_query[1].message,
                            update.callback_query)))

from_job == Ret(Some(EventInfo(None, None, None)))

----------------------------------------------------------------------------
(* Sign generator *)

NL == "\n"
NameChars == {"a", "b", "@", NL}

\* str.split(sep): the pieces between the separators, empty pieces kept
RECURSIVE split(_, _)
split(s, sep) ==
    IF \A i \in 1..Len(s) : s[i] # sep THEN <<s>>
    ELSE LET i == CHOOSE j \in 1..Len(s) :
                      s[j] = sep /\ \A h \in 1..(j - 1) : s[h] # sep
         IN <<SubSeq(s, 1, i - 1)>> \o split(SubSeq(s, i + 1, Len(s)), sep)

\* what bot.getChat(user_id) can give: an error, or a chat with its username
GetChatResults ==
    {Raise("BadRequest")} \cup {Ret(u) : u \in Opt({<<>>, <<"a">>})}

\* get_user_sign without its test of is_credited
get_user_sign_always_handle(pick, is_credited, getChat) ==
    IF getChat.exc # "" THEN getChat
    ELSE IF Truthy(getChat.value) THEN Ret(Some(<<"@">> \o getChat.value[1]))
    ELSE Ret(Some(split(names, NL)[pick]))

\* pick is the index random.choice draws; getChat is read only for a credited user
get_user_sign(pick, is_credited, getChat) ==
    LET sign == split(names, NL)[pick] IN
    IF is_credited
    THEN IF getChat.exc # "" THEN getChat
         ELSE IF Truthy(getChat.value) THEN Ret(Some(<<"@">> \o getChat.value[1]))
         ELSE Ret(Some(sign))
    ELSE Ret(Some(sign))

\* the inputs one get_user_sign call can meet
SignInputs ==
    [pick : 1..Len(split(names, NL)), is_credited : BOOLEAN, getChat : GetChatResults]

SignCall(in) ==
    [pick |-> in.pick, is_credited |-> in.is_credited, getChat |-> in.getChat,
     result |-> get_user_sign(in.pick, in.is_credited, in.getChat)]

\* what one get_user_sign call can give back
SignResults == {SignCall(in).result : in \in SignInputs}

\* f"by: {sign}"
by_sign(sign) == <<"b", "y", ":", " ">> \o sign

----------------------------------------------------------------------------
(* Remote chats, storage and the correlation dictionary *)

\* a remote call succeeds, is rejected (BadRequest) or fails otherwise
RemoteResults == {"ok", "BadRequest", "NetworkError"}
\* a row is written, or the storage layer raises
DbResults == {"ok", "DatabaseError"}

\* the id the remote side gives the next message of a chat
NextMessageId(chat, floor) ==
    1 + Max({0, floor} \cup {m.message_id : m \in {x \in sent : x.chat_id = chat}})

SentMsg(chat, id, kind, src, body, markup, reply_to) ==
    [chat_id |-> chat, message_id |-> id, kind |-> kind, from_message |-> src,
     body |-> body, reply_markup |-> markup, reply_to_message_id |-> reply_to]

PendingPost(user_message, g_id, g_message_id) ==
    [user_message |-> user_message, group_id |-> g_id, g_message_id |-> g_message_id]

PublishedPost(c_id, c_message_id) ==
    [channel_id |-> c_id, c_message_id |-> c_message_id]

\* f"{chat_id},{message_id}"
correlation_key(chat, id) == ToString(chat) \o "," \o ToString(id)

\* bot_data[k] = v
set_item(d, k, v) == [x \in DOMAIN d \cup {k} |-> IF x = k THEN v ELSE d[x]]

\* bot_data[k]
get_item(d, k) == IF k \in DOMAIN d THEN Ret(Some(d[k])) ELSE Raise("KeyError")

\* del that leaves the entry in place
del_item_kept(d, k) ==
    IF k \in DOMAIN d THEN Ret(Some(d)) ELSE Raise("KeyError")

\* del that does not raise for a missing key, as bot_data.pop(k, None)
del_item_quiet(d, k) == Ret(Some([x \in DOMAIN d \ {k} |-> d[x]]))

\* del bot_data[k]: the dictionary without k
del_item(d, k) ==
    IF k \in DOMAIN d THEN Ret(Some([x \in DOMAIN d \ {k} |-> d[x]]))
    ELSE Raise("KeyError")

\* the outcome of the routine run last
Last(op, ret, exc, message, user, new_id, key) ==
    [op |-> op, ret |-> ret, exc |-> exc, message |-> message, user |-> user,
     new_id |-> new_id, key |-> key]

----------------------------------------------------------------------------
(* Post forwarder: the three routines, each run as a whole *)

\* the submissions a user can have made in the private chat with the bot
UserMessages ==
    {Msg(1, PRIVATE, 1, TgUser(1, None), Some(<<"a">>), None, None),
     Msg(2, PRIVATE, 1, TgUser(2, None), None, None, Some(Poll1))}

\* the messages send_post_to_admins can be run on: a reply to a submission, or not
AdminCtxMessages ==
    {[Msg(1, PRIVATE, 2, TgUser(1, None), Some(<<"a">>), None, None)
        EXCEPT !.reply_to_message = r] : r \in Opt(UserMessages)}

\* the admin-group messages send_post_to_channel can be run on
ChannelCtxMessages ==
    {Msg(group_id, "group", i, TgUser(1, None), Some(<<"a">>), None, None) :
        i \in {1, 2}}

\* the discussion-group echo of the post `id` of chat `chat`
EchoMessage(chat, id) ==
    [Msg(channel_group_id, "supergroup", NextMessageId(channel_group_id, 0),
         TgUser(1, None), Some(<<"a">>), None, None)
        EXCEPT !.forward_from_chat = chat, !.forward_from_message_id = id]

\* the echoes send_post_to_channel_group can be run on: forwards of a message of
\* the channel (a first delivery or a repeated one), forwards from another
\* chat, and messages that are no forward at all
GroupCtxMessages ==
    LET ids == {m.message_id : m \in {x \in sent : x.chat_id = channel_id}} IN
    {EchoMessage(Some(c), Some(i)) : c \in {channel_id} \cup ForeignChats, i \in ids}
    \cup {EchoMessage(None, None)}

\* one routine's effect on the state it can touch
Effect(bd, pend, publ, snt, ech, lst) ==
    /\ bot_data' = bd
    /\ pending_posts' = pend
    /\ published_posts' = publ
    /\ sent' = snt
    /\ echoed' = ech
    /\ last' = lst
    /\ UNCHANGED <<comments, names, signed, pc, loc, info, acc>>

\* only the outcome is recorded: the routine changed nothing
NoEffect(lst) ==
    Effect(bot_data, pending_posts, published_posts, sent, echoed, lst)

send_post_to_admins ==
    /\ Cardinality(sent) + 1 <= MaxSent
    /\ \E ctx \in Opt(AdminCtxMessages) :
        LET op == "send_post_to_admins"
            out(ret, exc, id) == Last(op, ret, exc, ctx, None, id, None)
        IN
        IF ctx = None \/ ctx[1].reply_to_message = None
        THEN NoEffect(out("raise", "AttributeError", None))
        ELSE
        LET message == ctx[1].reply_to_message[1]
            g_message_id == NextMessageId(group_id, 0)
            copy == IF Truthy(message.poll)
                    THEN SentMsg(group_id, g_message_id, "send_poll", None,
                                 message.poll, Some("approve_kb"), None)
                    ELSE SentMsg(group_id, g_message_id, "copy_message", Some(message),
                                 None, Some("approve_kb"), None)
        IN
        \E remote \in RemoteResults :
            IF remote = "BadRequest" THEN NoEffect(out("False", "", None))
            ELSE IF remote # "ok" THEN NoEffect(out("raise", remote, None))
            ELSE \E db \in DbResults :
                IF db # "ok"
                THEN Effect(bot_data, pending_posts, published_posts,
                            sent \cup {copy}, echoed,
                            out("raise", db, Some(g_message_id)))
                ELSE Effect(bot_data,
                            pending_posts
                                \cup {PendingPost(message, group_id, g_message_id)},
                            published_posts, sent \cup {copy}, echoed,
                            out("True", "", Some(g_message_id)))

\* the voting keyboard whatever the setting
channel_markup_always(cfg) == Some("vote_kb")

\* lines 227-229: the voting keyboard, unless comments are enabled
channel_markup(cfg) == IF ~cfg THEN Some("vote_kb") ELSE None

\* the test of line 236 always failing
votes_on_post_never(cfg) == FALSE

\* line 236: whether the users vote directly on the channel post
votes_on_post(cfg) == ~cfg

\* line 239: the message the "by: <sign>" message replies to
sign_reply_target(message, c_message_id) == message.message_id

\* the key built from the id of the source message
correlation_entry_of_source(message, c_message_id) ==
    correlation_key(channel_id, message.message_id)

\* line 241: the key the submitter is recorded under
correlation_entry(message, c_message_id) ==
    correlation_key(channel_id, c_message_id)

send_post_to_channel ==
    /\ Cardinality(sent) + 2 <= MaxSent
    /\ \E ctx \in Opt(ChannelCtxMessages), user \in Users :
        LET op == "send_post_to_channel"
            out(ret, exc, id) == Last(op, ret, exc, ctx, Some(user), id, None)
        IN
        IF ctx = None THEN NoEffect(out("raise", "AttributeError", None))
        ELSE
        LET message == ctx[1]
            c_message_id == NextMessageId(channel_id, 0)
            copy == SentMsg(channel_id, c_message_id, "copy_message", Some(message),
                            None, channel_markup(comments), None)
            post == PublishedPost(channel_id, c_message_id)
            by(sign) == SentMsg(channel_id, NextMessageId(channel_id, c_message_id),
                                "send_message", None, Some(by_sign(sign)), None,
                                Some(sign_reply_target(message, c_message_id)))
            id == Some(c_message_id)
        IN
        \E remote \in RemoteResults :
            IF remote # "ok" THEN NoEffect(out("raise", remote, None))
            ELSE IF votes_on_post(comments)
            THEN \E db \in DbResults :
                IF db # "ok"
                THEN Effect(bot_data, pending_posts, published_posts,
                            sent \cup {copy}, echoed, out("raise", db, id))
                ELSE \E sign \in SignResults :
                    IF sign.exc # ""
                    THEN Effect(bot_data, pending_posts, published_posts \cup {post},
                                sent \cup {copy}, echoed, out("raise", sign.exc, id))
                    ELSE \E remote2 \in RemoteResults :
                        IF remote2 # "ok"
                        THEN Effect(bot_data, pending_posts,
                                    published_posts \cup {post}, sent \cup {copy},
                                    echoed, out("raise", remote2, id))
                        ELSE Effect(bot_data, pending_posts,
                                    published_posts \cup {post},
                                    sent \cup {copy, by(sign.value[1])}, echoed,
                                    out("None", "", id))
            ELSE Effect(set_item(bot_data, correlation_entry(message, c_message_id),
                                 user),
                        pending_posts, published_posts, sent \cup {copy}, echoed,
                        out("None", "", id))

send_post_to_channel_group ==
    /\ Cardinality(sent) + 1 <= MaxSent
    /\ \E ctx \in Opt(GroupCtxMessages) :
        LET op == "send_post_to_channel_group" IN
        IF ctx = None \/ ctx[1].forward_from_chat = None
        THEN NoEffect(Last(op, "raise", "AttributeError", ctx, None, None, None))
        ELSE
        LET message == ctx[1]
            forward_from_chat_id == message.forward_from_chat[1]
            forward_from_id == message.forward_from_message_id[1]
            key == correlation_key(forward_from_chat_id, forward_from_id)
            ech == echoed \cup {<<forward_from_chat_id, forward_from_id>>}
            found == get_item(bot_data, key)
            deleted == del_item(bot_data, key)
            post_message_id == NextMessageId(channel_group_id, message.message_id)
            by(sign) == SentMsg(channel_group_id, post_message_id, "send_message",
                                None, Some(by_sign(sign)), Some("vote_kb"),
                                Some(message.message_id))
            post == PublishedPost(channel_group_id, post_message_id)
            out(ret, exc, usr, id) == Last(op, ret, exc, ctx, usr, id, Some(key))
        IN
        IF found.exc # ""
        THEN Effect(bot_data, pending_posts, published_posts, sent, ech,
                    out("raise", found.exc, None, None))
        ELSE IF deleted.exc # ""
        THEN Effect(bot_data, pending_posts, published_posts, sent, ech,
                    out("raise", deleted.exc, found.value, None))
        ELSE \E sign \in SignResults :
            IF sign.exc # ""
            THEN Effect(deleted.value[1], pending_posts, published_posts, sent, ech,
                        out("raise", sign.exc, found.value, None))
            ELSE \E remote \in RemoteResults :
                IF remote # "ok"
                THEN Effect(deleted.value[1], pending_posts, published_posts, sent,
                            ech, out("raise", remote, found.value, None))
                ELSE \E db \in DbResults :
                    IF db # "ok"
                    THEN Effect(deleted.value[1], pending_posts, published_posts,
                                sent \cup {by(sign.value[1])}, ech,
                                out("raise", db, found.value, Some(post_message_id)))
                    ELSE Effect(deleted.value[1], pending_posts,
                                published_posts \cup {post},
                                sent \cup {by(sign.value[1])}, ech,
                                out("None", "", found.value, Some(post_message_id)))

NoLast == Last("none", "None", "", None, None, None, None)

Procs == 1..MaxProcs

NoLocals == [message |-> None, user_id |-> None, exc |-> "", at |-> 0]

\* the state after start-up, with the given anonym_names resource
Start(anonym_names) ==
    /\ comments \in BOOLEAN
    /\ names = anonym_names
    /\ bot_data = <<>>
    /\ pending_posts = {}
    /\ published_posts = {}
    /\ sent = {}
    /\ echoed = {}
    /\ signed = None
    /\ last = NoLast
    /\ pc = [p \in Procs |-> "idle"]
    /\ loc = [p \in Procs |-> NoLocals]
    /\ info = None
    /\ acc = None

Init == Start(<<"a", NL, "b">>)

Next ==
    \/ send_post_to_admins
    \/ send_post_to_channel
    \/ send_post_to_channel_group

Spec == Init /\ [][Next]_vars

----------------------------------------------------------------------------
(* EventInfo on its own: every update, through every factory *)

\* the factory's result, and every accessor of the object it built
Built(op, made) ==
    /\ info' = made.value
    /\ acc' = IF made.exc = "" THEN Some(Accessors(made.value[1])) ELSE None
    /\ last' = Last(op, IF made.exc = "" THEN "None" ELSE "raise", made.exc,
                    None, None, None, None)
    /\ UNCHANGED <<comments, names, bot_data, pending_posts, published_posts, sent,
                   echoed, signed, pc, loc>>

FromMessage == \E update \in Updates : Built("from_message", from_message(update))

FromCallback == \E update \in Updates : Built("from_callback", from_callback(update))

FromJob == Built("from_job", from_job)

NextCtx == FromMessage \/ FromCallback \/ FromJob

SpecCtx == Init /\ [][NextCtx]_vars

----------------------------------------------------------------------------
(* get_user_sign on its own: every anonym_names text, every user *)

InitSign == \E anonym_names \in SeqsUpTo(NameChars, MaxLen) : Start(anonym_names)

GetUserSign ==
    /\ \E in \in SignInputs : signed' = Some(SignCall(in))
    /\ UNCHANGED <<comments, names, bot_data, pending_posts, published_posts, sent,
                   echoed, last, pc, loc, info, acc>>

NextSign == GetUserSign

SpecSign == InitSign /\ [][NextSign]_vars

----------------------------------------------------------------------------
(* send_post_to_channel_group line by line, run by concurrent handlers *)

StepTo(p, line, locals) ==
    /\ pc' = [pc EXCEPT ![p] = line]
    /\ loc' = [loc EXCEPT ![p] = locals]

\* the handler is over and its frame is gone: what is left is the exception
\* that ended it and the line that raised it
Fail(p, exc, line) ==
    StepTo(p, "raised", [NoLocals EXCEPT !.exc = exc, !.at = line])

KeyOf(locals) ==
    correlation_key(locals.message[1].forward_from_chat[1],
                    locals.message[1].forward_from_message_id[1])

\* lines 246-249: the handler is entered with an echo and reads its forward
\* source; the handlers are numbered in the order they are entered
GroupEnter(p) ==
    /\ pc[p] = "idle"
    /\ \A q \in 1..(p - 1) : pc[q] # "idle"
    /\ \E ctx \in GroupCtxMessages :
        IF ctx.forward_from_chat = None
        THEN Fail(p, "AttributeError", 248)
        ELSE StepTo(p, "get", [loc[p] EXCEPT !.message = Some(ctx)])
    /\ UNCHANGED <<comments, names, bot_data, pending_posts, published_posts, sent,
                   echoed, signed, last, info, acc>>

\* line 250
GroupGet(p) ==
    /\ pc[p] = "get"
    /\ LET found == get_item(bot_data, KeyOf(loc[p])) IN
        IF found.exc # "" THEN Fail(p, found.exc, 250)
        ELSE StepTo(p, "del", [loc[p] EXCEPT !.user_id = found.value])
    /\ UNCHANGED <<comments, names, bot_data, pending_posts, published_posts, sent,
                   echoed, signed, last, info, acc>>

\* line 251
GroupDel(p) ==
    /\ pc[p] = "del"
    /\ LET deleted == del_item(bot_data, KeyOf(loc[p])) IN
        IF deleted.exc # ""
        THEN Fail(p, deleted.exc, 251) /\ UNCHANGED bot_data
        ELSE StepTo(p, "sign", loc[p]) /\ bot_data' = deleted.value[1]
    /\ UNCHANGED <<comments, names, pending_posts, published_posts, sent,
                   echoed, signed, last, info, acc>>

\* lines 253-259: the part that no longer reads or writes bot_data
GroupReply(p) ==
    /\ pc[p] = "sign"
    /\ Cardinality(sent) + 1 <= MaxSent
    /\ LET message == loc[p].message[1]
           post_message_id == NextMessageId(channel_group_id, message.message_id)
           by(sign) == SentMsg(channel_group_id, post_message_id, "send_message",
                               None, Some(by_sign(sign)), Some("vote_kb"),
                               Some(message.message_id))
           post == PublishedPost(channel_group_id, post_message_id)
           over == [NoLocals EXCEPT !.message = loc[p].message]
       IN
       \E sign \in SignResults :
           IF sign.exc # ""
           THEN Fail(p, sign.exc, 253) /\ UNCHANGED <<sent, published_posts>>
           ELSE \E remote \in RemoteResults :
               IF remote # "ok"
               THEN Fail(p, remote, 254) /\ UNCHANGED <<sent, published_posts>>
               ELSE \E db \in DbResults :
                   IF db # "ok"
                   THEN /\ Fail(p, db, 259)
                        /\ sent' = sent \cup {by(sign.value[1])}
                        /\ UNCHANGED published_posts
                   ELSE /\ StepTo(p, "done", over)
                        /\ sent' = sent \cup {by(sign.value[1])}
                        /\ published_posts' = published_posts \cup {post}
    /\ UNCHANGED <<comments, names, bot_data, pending_posts, echoed, signed, last,
                   info, acc>>

\* a post is published while the handlers run
Publish == send_post_to_channel /\ last'.ret = "None"

NextConc ==
    \/ Publish
    \/ \E p \in Procs :
        \/ GroupEnter(p)
        \/ GroupGet(p)
        \/ GroupDel(p)
        \/ GroupReply(p)

SpecConc == Init /\ [][NextConc]_vars

----------------------------------------------------------------------------
(* Properties *)

ADMINS == "send_post_to_admins"
CHANNEL == "send_post_to_channel"
GROUP == "send_post_to_channel_group"

\* the messages of a chat that one kind of call has put there
SentBy(snt, chat, kind) == {m \in snt : m.chat_id = chat /\ m.kind = kind}

\* send_post_to_admins was run on a reply to a submission: it reached its remote call
AdminsCalled(lst) ==
    /\ lst.op = ADMINS
    /\ lst.message # None
    /\ lst.message[1].reply_to_message # None

\* C1: when the remote send_poll/copy_message call of send_post_to_admins fails,
\* the routine returns False and creates no PendingPost; a PendingPost is
\* created (exactly one, linking the replied-to message to the admin-group
\* message id) only when the remote call succeeded and the routine returns True.
C1_FailureReturnsFalse ==
    [][AdminsCalled(last') =>
        /\ last'.new_id = None =>
              last'.ret = "False" /\ pending_posts' = pending_posts
        /\ pending_posts' # pending_posts =>
              /\ last'.new_id # None
              /\ last'.ret = "True"
              /\ pending_posts \subseteq pending_posts'
              /\ pending_posts' \ pending_posts =
                    {PendingPost(last'.message[1].reply_to_message[1], group_id,
                                 last'.new_id[1])}]_vars

\* C5: send_post_to_admins always returns a boolean and never raises, whatever
\* the outcome of the remote call and of the PendingPost persistence step.
C5_AlwaysReturnsBool ==
    AdminsCalled(last) => last.ret \in {"True", "False"}

\* C6: with comments disabled, the "by: <sign>" message of send_post_to_channel
\* replies to the channel copy: its reply target is the id copy_message returned.
C6_SignRepliesToChannelCopy ==
    (last.op = CHANNEL /\ last.ret = "None" /\ ~comments) =>
        \A m \in SentBy(sent, channel_id, "send_message") :
            m.message_id > last.new_id[1] => m.reply_to_message_id = last.new_id

\* the forward source of the echo the last send_post_to_channel_group ran on
ForwardSource(lst) ==
    <<lst.message[1].forward_from_chat[1], lst.message[1].forward_from_message_id[1]>>

\* C2: send_post_to_channel_group removes from bot_data exactly the entry keyed
\* by the echo's forward source and leaves the others as they were; a call on a
\* forward source an earlier call was run on recovers no user id, sends no
\* "by: <sign>" message and persists no PublishedPost.
C2_ConsumesExactlyOnce ==
    [][(last'.op = GROUP /\ last'.key # None) =>
        LET src == ForwardSource(last')
            k == correlation_key(src[1], src[2])
        IN
        /\ DOMAIN bot_data' = DOMAIN bot_data \ {k}
        /\ \A x \in DOMAIN bot_data' : bot_data'[x] = bot_data[x]
        /\ src \in echoed =>
              /\ last'.user = None
              /\ sent' = sent
              /\ published_posts' = published_posts]_vars

\* C2 happens: the echo of the one channel post was answered with a sign message,
\* and a second call on the same forward source ended in a KeyError
C2_Witness ==
    /\ last.op = GROUP
    /\ last.exc = "KeyError"
    /\ Cardinality(SentBy(sent, channel_id, "copy_message")) = 1
    /\ Cardinality(SentBy(sent, channel_group_id, "send_message")) = 1
    /\ ForwardSource(last)[1] = channel_id
    /\ bot_data = <<>>

C3_EntryPresent ==
    comments =>
        \A m \in SentBy(sent, channel_id, "copy_message") :
            LET k == correlation_key(channel_id, m.message_id) IN
            IF <<channel_id, m.message_id>> \in echoed
            THEN k \notin DOMAIN bot_data
            ELSE k \in DOMAIN bot_data

C3_EntryStep ==
    /\ \A k \in DOMAIN bot_data \cap DOMAIN bot_data' : bot_data'[k] = bot_data[k]
    /\ (last'.op = CHANNEL /\ last'.ret = "None" /\ comments) =>
          LET k == correlation_key(channel_id, last'.new_id[1]) IN
          /\ DOMAIN bot_data' = DOMAIN bot_data \cup {k}
          /\ bot_data'[k] = last'.user[1]
    /\ \A k \in DOMAIN bot_data \ DOMAIN bot_data' :
          /\ last'.op = GROUP
          /\ k = correlation_key(ForwardSource(last')[1], ForwardSource(last')[2])
          /\ ForwardSource(last') \notin echoed
          /\ ForwardSource(last') \in echoed'

\* C3: with comments enabled, every post send_post_to_channel has copied into
\* the channel and whose echo has not been processed yet has the entry
\* (channel_id, its message id) in bot_data, mapping to the user id the routine
\* was given; an entry leaves bot_data only in the step that processes its echo,
\* and is absent ever after.
C3_EntryUntilEcho == []C3_EntryPresent /\ [][C3_EntryStep]_vars

\* C3 happens: of two channel posts, one is waiting for its echo with its entry
\* in place, the other has had its echo processed and its entry removed
C3_Witness ==
    /\ comments
    /\ \E m, n \in SentBy(sent, channel_id, "copy_message") :
        /\ <<channel_id, m.message_id>> \in echoed
        /\ <<channel_id, n.message_id>> \notin echoed
        /\ DOMAIN bot_data = {correlation_key(channel_id, n.message_id)}

\* C4: send_post_to_channel ends in one of two ways, by the comments setting.
\* Disabled: the channel copy carries the voting keyboard, exactly one
\* PublishedPost (channel_id, new id) is written, one "by: <sign>" message is
\* sent, bot_data is unchanged.  Enabled: the copy carries no keyboard, no
\* PublishedPost is written, no sign message is sent, and exactly one entry
\* (channel_id, new id) -> user id is recorded.  The two do not mix, not even
\* in a run that an exception ends: with comments disabled bot_data is never
\* written, with comments enabled no PublishedPost and no sign message appear.
C4_TwoOutcomes ==
    [][/\ last'.op = CHANNEL =>
           IF ~comments THEN bot_data' = bot_data
           ELSE /\ published_posts' = published_posts
                /\ \A m \in sent' \ sent : m.kind # "send_message"
       /\ (last'.op = CHANNEL /\ last'.ret = "None") =>
        LET id == last'.new_id[1]
            new == sent' \ sent
            copies == {m \in SentBy(new, channel_id, "copy_message") :
                           m.message_id = id}
            signs == {m \in new : m.kind = "send_message"}
            k == correlation_key(channel_id, id)
        IN
        /\ sent \subseteq sent'
        /\ published_posts \subseteq published_posts'
        /\ Cardinality(copies) = 1
        /\ new = copies \cup signs
        /\ IF ~comments
           THEN /\ \A m \in copies : m.reply_markup = Some("vote_kb")
                /\ published_posts' \ published_posts = {PublishedPost(channel_id, id)}
                /\ Cardinality(signs) = 1
                /\ \A m \in signs :
                      /\ m.chat_id = channel_id
                      /\ SubSeq(m.body[1], 1, 4) = <<"b", "y", ":", " ">>
                /\ bot_data' = bot_data
           ELSE /\ \A m \in copies : m.reply_markup = None
                /\ published_posts' = published_posts
                /\ signs = {}
                /\ k \notin DOMAIN bot_data
                /\ DOMAIN bot_data' = DOMAIN bot_data \cup {k}
                /\ bot_data'[k] = last'.user[1]
                /\ \A x \in DOMAIN bot_data : bot_data'[x] = bot_data[x]]_vars

\* C4 happens: with comments disabled a post was published with its sign message
C4_Witness ==
    /\ last.op = CHANNEL
    /\ last.ret = "None"
    /\ ~comments
    /\ PublishedPost(channel_id, last.new_id[1]) \in published_posts
    /\ SentBy(sent, channel_id, "send_message") # {}

\* C7: with comments disabled, send_post_to_channel_group never sends a
\* "by: <sign>" message to the discussion group and never persists a
\* PublishedPost for a group message.
C7_NoEchoStepWithoutComments ==
    ~comments =>
        /\ \A m \in sent : m.chat_id # channel_group_id
        /\ \A post \in published_posts : post.channel_id # channel_group_id
        /\ last.op = GROUP => last.ret = "raise"

\* C7 happens: with comments disabled, the routine was run on the echo of a
\* published channel post
C7_Witness ==
    /\ ~comments
    /\ last.op = GROUP
    /\ last.key # None
    /\ ForwardSource(last)[1] = channel_id
    /\ PublishedPost(channel_id, ForwardSource(last)[2]) \in published_posts

\* s is one of the lines of txt: a stretch without newline between two
\* newlines or ends of the text
IsLine(s, txt) ==
    \E i \in 1..(Len(txt) + 1), j \in 0..Len(txt) :
        /\ j >= i - 1
        /\ SubSeq(txt, i, j) = s
        /\ \A h \in i..j : txt[h] # NL
        /\ i = 1 \/ txt[i - 1] = NL
        /\ j = Len(txt) \/ txt[j + 1] = NL

\* C8: for a user whose is_credited is false, get_user_sign returns one of the
\* lines of the anonym_names text, and "@" + the user's handle only where that
\* is itself such a line; for a credited user with a non-empty handle it
\* returns "@" + handle.
C8_SignByPreference ==
    signed # None =>
        LET c == signed[1] IN
        /\ ~c.is_credited =>
              /\ c.result.exc = ""
              /\ IsLine(c.result.value[1], names)
              /\ (c.getChat.exc = "" /\ Truthy(c.getChat.value)
                    /\ ~IsLine(<<"@">> \o c.getChat.value[1], names)) =>
                    c.result.value[1] # <<"@">> \o c.getChat.value[1]
        /\ (c.is_credited /\ c.getChat.exc = "" /\ Truthy(c.getChat.value)) =>
              c.result = Ret(Some(<<"@">> \o c.getChat.value[1]))

\* C8 happens: a user with a handle who did not ask for credit was signed with
\* the second line of a two-line list
C8_Witness ==
    /\ signed # None
    /\ ~signed[1].is_credited
    /\ signed[1].getChat = Ret(Some(<<"a">>))
    /\ names = <<"b", NL, "a">>
    /\ signed[1].result = Ret(Some(<<"a">>))

\* C9: for every EventInfo built by from_message, from_callback or from_job
\* whose message is absent, every message-derived accessor returns None and
\* none of them raises.
C9_AbsentMessageAccessors ==
    (info # None /\ info[1].message = None) =>
        /\ acc # None
        /\ \A a \in MessageAccessors : acc[1][a] = Ret(None)

\* C9 happens: a callback query without a message went through from_callback
C9_Witness ==
    /\ last.op = "from_callback"
    /\ info # None
    /\ info[1].query # None
    /\ info[1].message = None
    /\ acc # None

\* the handlers that have got past the deletion of the entry `k`
Consumers(k) ==
    {p \in Procs : pc[p] \in {"sign", "done"} /\ KeyOf(loc[p]) = k}

\* C10: however the read step and the delete step of concurrently running
\* send_post_to_channel_group handlers for one correlation key interleave, at
\* most one of them goes on to send a "by: <sign>" message and persist a
\* PublishedPost.
C10_AtMostOneConsumer ==
    /\ \A p \in Procs : pc[p] \in {"sign", "done"} =>
          Cardinality(Consumers(KeyOf(loc[p]))) <= 1
    /\ Cardinality(SentBy(sent, channel_group_id, "send_message"))
          <= Cardinality(SentBy(sent, channel_id, "copy_message"))

\* C10 happens: two handlers read the entry of the one channel post; one
\* deleted it and ran to its end, the other failed at its own deletion
C10_Witness ==
    /\ Cardinality(SentBy(sent, channel_id, "copy_message")) = 1
    /\ \E p, q \in Procs :
        /\ p # q
        /\ pc[p] = "done"
        /\ pc[q] = "raised"
        /\ loc[q].exc = "KeyError"
        /\ loc[q].at = 251

====
